---------------------------- MODULE Spec2Model ----------------------------
(***************************************************************************)
(* aircommit: signed envelope lines ("ac" + base64 + bech32 signature),    *)
(* the multi-part QR channel and the audio FSK channel.                    *)
(*                                                                         *)
(* Text is modelled as a sequence of one-character strings, bytes as       *)
(* integers 0..255.  The specifications that share the module:             *)
(*   Spec       the envelope encoder and the three decoder scripts         *)
(*   SpecQR     split_and_generate_qr_gif / reconstruct_base64             *)
(*   SpecQRMain examples/ac_to_qr.py main / reconstruct_base64             *)
(*   SpecAudio  generate_audio_from_base64 / sound_to_ac.py main           *)
(*   SpecWindow split_audio_into_bits on recordings of any length          *)
(*   SpecKeys   the bech32 decoders of keys and signatures                 *)
(*   SpecMap    map_frequency_to_base64_char                               *)
(***************************************************************************)
EXTENDS Integers, Sequences, FiniteSets, TLC

VARIABLES
    \* ---- envelope (examples/anyfile/encode.py and the decoder scripts)
    payload,          \* bytes of the file given to the encoder
    signer,           \* key the encoder signs with
    single_code,      \* the line the encoder printed
    script,           \* which decoder script runs
    pub_key,          \* key the decoder was given
    line,             \* single_code_line / ac_code read by the decoder
    pc,               \* position of the envelope run
    sig_index,        \* result of the marker search
    base64_part,      \* base64_encoded / base64_patch / base64_part
    signature_str,    \* signature_str / sig_part
    signature_bytes,  \* decoded signature
    file_bytes,       \* decoded body
    verified,         \* vk.verify returned without raising
    output,           \* bytes written to the target file / fed to git apply
    error,            \* which check made the script exit ("" while none)
    \* ---- QR channel
    qr_body,          \* base64_data given to the split step
    chunk_size,       \* chunk_size given to the split step
    frames,           \* the strings put into the QR frames, in emission order
    data_list,        \* the strings read back by the scanner
    qr_result,        \* outcome of reconstruct_base64
    qr_pc,
    \* ---- audio channel
    au_script,        \* which encoder script produced the audio
    au_body,          \* base64 string given to the encoder
    au_tones,         \* <<char, frequency>> of every tone emitted
    audio_data,       \* the waveform, as runs of samples of one tone
    samplerate,       \* sample rate of the audio file
    segments,         \* windows cut by split_audio_into_bits
    seg_i,            \* index of the next window to demodulate
    base64_chars,     \* characters recovered so far
    dropped,          \* windows skipped so far ("Skipping this segment." lines)
    au_pc,
    \* ---- key and signature strings
    key_tag,          \* human-readable part the string was encoded with
    key_payload,      \* bytes the string was encoded from
    key_form,         \* how the encoded string was altered before it is read
    key_string,       \* the bech32 string given to the decoder
    key_decoder,      \* which decoder function of which script is called
    key_result,       \* what the call returned or that it raised
    key_pc,
    \* ---- map_frequency_to_base64_char called on its own
    map_slot,         \* index of the alphabet slot the frequency is near
    map_num,          \* frequency = map_num / map_den, in Hz
    map_den,
    map_result,       \* the character returned, or ok = FALSE for ValueError
    map_pc

envVars == << payload, signer, single_code, script, pub_key, line, pc, sig_index,
              base64_part, signature_str, signature_bytes, file_bytes, verified,
              output, error >>
qrVars == << qr_body, chunk_size, frames, data_list, qr_result, qr_pc >>
auVars == << au_script, au_body, au_tones, audio_data, samplerate, segments, seg_i,
             base64_chars, dropped, au_pc >>
keyVars == << key_tag, key_payload, key_form, key_string, key_decoder,
              key_result, key_pc >>
mapVars == << map_slot, map_num, map_den, map_result, map_pc >>
vars == << envVars, qrVars, auVars, keyVars, mapVars >>

-----------------------------------------------------------------------------
(* Bounds of the model *)

MaxBytes == 2      \* longest enumerated payload, in bytes
MaxBody == 3       \* longest QR body, in characters
MaxChunk == 3      \* largest QR chunk size
MaxScan == 4       \* longest list of scanned strings
MaxAudioLen == 2   \* longest audio body, in characters
MaxDetune == 25    \* largest distance, in Hz, of a frequency from its slot
MaxKeySlack == 1   \* key and signature payloads differ from the expected
                   \* length by at most this many bytes
MaxRuns == 2       \* most runs of one tone in a recording given to the
                   \* windowing on its own
MaxOver == 1       \* strings given to ac_to_qr.py main exceed a multiple of
                   \* the chunk size by at most this many characters

-----------------------------------------------------------------------------
(* Python's str / list primitives *)

Min(S) == CHOOSE x \in S : \A y \in S : x <= y
Max(S) == CHOOSE x \in S : \A y \in S : x >= y

\* s[a:b] with 0 <= a; b is clipped to len(s)
Slice(s, a, b) ==
    LET hi == IF b > Len(s) THEN Len(s) ELSE b
    IN  IF hi <= a THEN << >> ELSE SubSeq(s, a + 1, hi)

\* s[a:]
SliceFrom(s, a) == Slice(s, a, Len(s))

\* s.startswith(p)
StartsWith(s, p) == Len(s) >= Len(p) /\ SubSeq(s, 1, Len(p)) = p

\* a search that takes the text before the last character of sub for sub
find_all_but_last(s, sub, start) ==
    LET short == SubSeq(sub, 1, Len(sub) - 1)
        hits == { i \in start..(Len(s) - Len(short)) :
                      SubSeq(s, i + 1, i + Len(short)) = short }
    IN  IF hits = {} THEN -1 ELSE Min(hits)

\* s.find(sub, start): lowest 0-based index >= start where sub occurs, else -1
Find(s, sub, start) ==
    LET hits == { i \in start..(Len(s) - Len(sub)) :
                      SubSeq(s, i + 1, i + Len(sub)) = sub }
    IN  IF hits = {} THEN -1 ELSE Min(hits)

\* s.rfind(sub): highest 0-based index where sub occurs, else -1
RFind(s, sub) ==
    LET hits == { i \in 0..(Len(s) - Len(sub)) :
                      SubSeq(s, i + 1, i + Len(sub)) = sub }
    IN  IF hits = {} THEN -1 ELSE Max(hits)

\* 1-based position of ch in alphabet, 0 when absent (alphabet.find(ch) + 1)
IndexOf(ch, alphabet) ==
    IF \E i \in 1..Len(alphabet) : alphabet[i] = ch
    THEN Min({ i \in 1..Len(alphabet) : alphabet[i] = ch })
    ELSE 0

\* whitespace characters (ord(x) < 33: str.strip() removes them,
\* bech32_decode refuses them)
WHITESPACE == { " ", "\n", "\t" }

\* s.strip()
Strip(s) ==
    LET keep == { i \in 1..Len(s) : s[i] \notin WHITESPACE }
    IN  IF keep = {} THEN << >> ELSE SubSeq(s, Min(keep), Max(keep))

Range(s) == { s[i] : i \in 1..Len(s) }

\* [x] * n
Repeat(x, n) == [ i \in 1..n |-> x ]

RECURSIVE SeqsUpTo(_, _)
\* all sequences over S of length 0..n
SeqsUpTo(S, n) ==
    IF n = 0 THEN { << >> }
    ELSE LET shorter == SeqsUpTo(S, n - 1)
         IN  shorter \cup { Append(s, x) : s \in { t \in shorter : Len(t) = n - 1 }, x \in S }

RECURSIVE Pow2(_)
Pow2(n) == IF n = 0 THEN 1 ELSE 2 * Pow2(n - 1)

-----------------------------------------------------------------------------
(* base64 (Python's base64.b64encode / base64.b64decode, RFC 4648) *)

B64 == <<
    "A", "B", "C", "D", "E", "F", "G", "H", "I", "J", "K", "L", "M", "N", "O", "P",
    "Q", "R", "S", "T", "U", "V", "W", "X", "Y", "Z", "a", "b", "c", "d", "e", "f",
    "g", "h", "i", "j", "k", "l", "m", "n", "o", "p", "q", "r", "s", "t", "u", "v",
    "w", "x", "y", "z", "0", "1", "2", "3", "4", "5", "6", "7", "8", "9", "+", "/" >>

RECURSIVE b64encode(_)
b64encode(bs) ==
    IF Len(bs) = 0 THEN << >>
    ELSE IF Len(bs) = 1 THEN
        << B64[(bs[1] \div 4) + 1], B64[((bs[1] % 4) * 16) + 1], "=", "=" >>
    ELSE IF Len(bs) = 2 THEN
        << B64[(bs[1] \div 4) + 1],
           B64[((bs[1] % 4) * 16 + bs[2] \div 16) + 1],
           B64[((bs[2] % 16) * 4) + 1], "=" >>
    ELSE
        << B64[(bs[1] \div 4) + 1],
           B64[((bs[1] % 4) * 16 + bs[2] \div 16) + 1],
           B64[((bs[2] % 16) * 4 + bs[3] \div 64) + 1],
           B64[(bs[3] % 64) + 1] >> \o b64encode(SubSeq(bs, 4, Len(bs)))

RECURSIVE a2b_base64(_, _, _, _, _, _)
\* binascii.a2b_base64 in its default (non-strict) mode: characters outside
\* the alphabet are skipped, a complete pad sequence ends the input, and a
\* quad left open at the end is an error.
a2b_base64(text, i, quad_pos, leftchar, pads, out) ==
    IF i > Len(text) THEN
        IF quad_pos # 0 THEN [ok |-> FALSE, val |-> << >>]
        ELSE [ok |-> TRUE, val |-> out]
    ELSE IF text[i] = "=" THEN
        IF quad_pos >= 2 /\ quad_pos + pads + 1 >= 4 THEN [ok |-> TRUE, val |-> out]
        ELSE a2b_base64(text, i + 1, quad_pos, leftchar,
                        IF quad_pos >= 2 THEN pads + 1 ELSE pads, out)
    ELSE IF IndexOf(text[i], B64) = 0 THEN
        a2b_base64(text, i + 1, quad_pos, leftchar, pads, out)
    ELSE
        LET v == IndexOf(text[i], B64) - 1
        IN  CASE quad_pos = 0 -> a2b_base64(text, i + 1, 1, v, 0, out)
              [] quad_pos = 1 -> a2b_base64(text, i + 1, 2, v % 16, 0,
                                            Append(out, leftchar * 4 + v \div 16))
              [] quad_pos = 2 -> a2b_base64(text, i + 1, 3, v % 4, 0,
                                            Append(out, leftchar * 16 + v \div 4))
              [] OTHER        -> a2b_base64(text, i + 1, 0, 0, 0,
                                            Append(out, leftchar * 64 + v))

\* base64.b64decode(text): [ok, val]; ok = FALSE stands for binascii.Error
b64decode(text) == a2b_base64(text, 1, 0, 0, 0, << >>)

-----------------------------------------------------------------------------
(* bech32 (the bech32 package: bech32_encode, bech32_decode, convertbits) *)

CHARSET == <<
    "q", "p", "z", "r", "y", "9", "x", "8", "g", "f", "2", "t", "v", "d", "w", "0",
    "s", "3", "j", "n", "5", "4", "k", "h", "c", "e", "6", "m", "u", "a", "7", "l" >>

LOWER == <<
    "a", "b", "c", "d", "e", "f", "g", "h", "i", "j", "k", "l", "m", "n", "o", "p",
    "q", "r", "s", "t", "u", "v", "w", "x", "y", "z" >>

UPPER == <<
    "A", "B", "C", "D", "E", "F", "G", "H", "I", "J", "K", "L", "M", "N", "O", "P",
    "Q", "R", "S", "T", "U", "V", "W", "X", "Y", "Z" >>

\* str.lower()
ToLower(s) ==
    [ i \in 1..Len(s) |->
        IF IndexOf(s[i], UPPER) # 0 THEN LOWER[IndexOf(s[i], UPPER)] ELSE s[i] ]

\* str.upper()
ToUpper(s) ==
    [ i \in 1..Len(s) |->
        IF IndexOf(s[i], LOWER) # 0 THEN UPPER[IndexOf(s[i], LOWER)] ELSE s[i] ]

\* value of `width` bits of the bit stream of data (frombits per element,
\* most significant first) starting at bit k; bits past the end count as 0
StreamBits(data, frombits, k, width) ==
    LET Bit(n) == IF n >= Len(data) * frombits THEN 0
                  ELSE (data[(n \div frombits) + 1]
                            \div Pow2(frombits - 1 - (n % frombits))) % 2
        RECURSIVE Acc(_)
        Acc(b) == IF b = width THEN 0
                  ELSE Bit(k + b) * Pow2(width - 1 - b) + Acc(b + 1)
    IN  Acc(0)

\* convertbits(data, frombits, tobits, pad): the bit stream of data regrouped
\* into tobits-wide values.  With pad the last group is filled with zero
\* bits; without it, left-over bits must be fewer than frombits and zero.
\* None is kept as ok = FALSE.
convertbits(data, frombits, tobits, pad) ==
    LET total == Len(data) * frombits
        whole == total \div tobits
        left == total % tobits
        n == IF pad /\ left > 0 THEN whole + 1 ELSE whole
    IN  IF \E i \in 1..Len(data) : data[i] < 0 \/ data[i] >= Pow2(frombits)
        THEN [ok |-> FALSE, val |-> << >>]
        ELSE IF ~pad /\ (left >= frombits
                         \/ StreamBits(data, frombits, whole * tobits, tobits) # 0)
        THEN [ok |-> FALSE, val |-> << >>]
        ELSE [ok |-> TRUE,
              val |-> [ j \in 1..n |-> StreamBits(data, frombits, (j - 1) * tobits, tobits) ]]

RECURSIVE WeightedSum(_, _, _, _)
\* sum of vals[i] * weight(i, j) over i in lo..hi
WeightedSum(vals, lo, hi, j) ==
    IF lo > hi THEN 0
    ELSE IF lo = hi THEN vals[lo] * (((lo + j) % 31) + 1)
    ELSE LET mid == (lo + hi) \div 2
         IN  WeightedSum(vals, lo, mid, j) + WeightedSum(vals, mid + 1, hi, j)

\* The six checksum symbols of a bech32 string.  The package computes a BCH
\* code over the human-readable part and the data; what the scripts rely on
\* is that it is a function of both that a changed string does not pass.
\* It is kept here as six position-weighted sums modulo 32.
bech32_create_checksum(hrp, data) ==
    LET h == [ i \in 1..Len(hrp) |-> IndexOf(hrp[i], LOWER) ]
    IN  [ j \in 1..6 |-> (WeightedSum(h, 1, Len(h), j + 7) + WeightedSum(data, 1, Len(data), j)) % 32 ]

bech32_encode(hrp, data) ==
    LET combined == data \o bech32_create_checksum(hrp, data)
    IN  hrp \o << "1" >> \o [ i \in 1..Len(combined) |-> CHARSET[combined[i] + 1] ]

\* bech32_decode(bech): (hrp, data), or (None, None) kept as none = TRUE
bech32_decode(bech) ==
    LET none == [none |-> TRUE, hrp |-> << >>, data |-> << >>]
        hasUpper == \E i \in 1..Len(bech) : IndexOf(bech[i], UPPER) # 0
        hasLower == \E i \in 1..Len(bech) : IndexOf(bech[i], LOWER) # 0
        low == ToLower(bech)
        pos == RFind(low, << "1" >>)
        tail == SliceFrom(low, pos + 1)
        data == [ i \in 1..Len(tail) |-> IndexOf(tail[i], CHARSET) - 1 ]
        hrp == Slice(low, 0, pos)
    IN  IF (\E i \in 1..Len(bech) : bech[i] \in WHITESPACE) \/ (hasUpper /\ hasLower)
        THEN none
        ELSE IF pos < 1 \/ pos + 7 > Len(low) THEN none
        ELSE IF \E i \in 1..Len(tail) : IndexOf(tail[i], CHARSET) = 0 THEN none
        ELSE IF SubSeq(data, Len(data) - 5, Len(data))
                    # bech32_create_checksum(hrp, SubSeq(data, 1, Len(data) - 6))
        THEN none
        ELSE [none |-> FALSE, hrp |-> hrp, data |-> SubSeq(data, 1, Len(data) - 6)]

-----------------------------------------------------------------------------
(* Keys and signatures (the ecdsa package: SigningKey.sign, VerifyingKey.verify) *)

Keys == { 1, 2 }
SIG_LEN == 64

\* sk.sign(message): the 64 signature bytes.  A signature is bound to the key
\* and to the message and to nothing else; it is kept as the key, the length
\* of the message and the message, zero-padded to 64 bytes.
sign(key, message) ==
    LET head == << key, Len(message) >> \o message
    IN  head \o Repeat(0, SIG_LEN - Len(head))

\* a verification that returns for every signature
verify_wrongly_accepts(key, signature, message) == TRUE

\* vk.verify(signature, message): TRUE when it returns, FALSE stands for
\* BadSignatureError
verify(key, signature, message) == signature = sign(key, message)

ACSIG == << "a", "c", "s", "i", "g" >>
MARKER == << "a", "c", "s", "i", "g", "1" >>
AC == << "a", "c" >>

encode_signature_bech32(sig_bytes) ==
    bech32_encode(ACSIG, convertbits(sig_bytes, 8, 5, TRUE).val)

\* decode_bech32_signature: [ok, val]; ok = FALSE stands for the exception
\* the callers catch ("Signature decoding error")
decode_bech32_signature(bech32_string) ==
    LET r == bech32_decode(bech32_string)
        decoded == convertbits(r.data, 5, 8, FALSE)
    IN  IF r.none \/ r.hrp # ACSIG THEN [ok |-> FALSE, val |-> << >>]
        ELSE IF ~decoded.ok THEN [ok |-> FALSE, val |-> << >>]
        ELSE IF Len(decoded.val) # SIG_LEN THEN [ok |-> FALSE, val |-> << >>]
        ELSE [ok |-> TRUE, val |-> decoded.val]

ACSEC == << "a", "c", "s", "e", "c" >>
ACPUB == << "a", "c", "p", "u", "b" >>
SEC_LEN == 32
PUB_LEN == 64

\* decode_bech32_public_key without its length test
decode_bech32_public_key_any_length(bech32_string) ==
    LET r == bech32_decode(bech32_string)
        decoded == convertbits(r.data, 5, 8, FALSE)
    IN  IF r.none \/ r.hrp # ACPUB THEN [ok |-> FALSE, val |-> << >>]
        ELSE IF ~decoded.ok THEN [ok |-> FALSE, val |-> << >>]
        ELSE [ok |-> TRUE, val |-> decoded.val]

\* decode_bech32_public_key of examples/anyfile/decode.py and
\* examples/diff/decode_diff.py.  A failed bech32_decode gives hrp = None,
\* which is not "acpub"; bytes(None) after a failed convertbits raises
\* TypeError; both reach the caller's except clause (ok = FALSE).
decode_bech32_public_key(bech32_string) ==
    LET r == bech32_decode(bech32_string)
        decoded == convertbits(r.data, 5, 8, FALSE)
    IN  IF r.none \/ r.hrp # ACPUB THEN [ok |-> FALSE, val |-> << >>]
        ELSE IF ~decoded.ok THEN [ok |-> FALSE, val |-> << >>]
        ELSE IF Len(decoded.val) # PUB_LEN THEN [ok |-> FALSE, val |-> << >>]
        ELSE [ok |-> TRUE, val |-> decoded.val]

\* decode_bech32_private_key of examples/anyfile/encode.py,
\* python/diff/encode_diff.py and examples/python/decode.py
decode_bech32_private_key(bech32_string) ==
    LET r == bech32_decode(bech32_string)
        decoded == convertbits(r.data, 5, 8, FALSE)
    IN  IF r.none \/ r.hrp # ACSEC THEN [ok |-> FALSE, val |-> << >>]
        ELSE IF ~decoded.ok THEN [ok |-> FALSE, val |-> << >>]
        ELSE IF Len(decoded.val) # SEC_LEN THEN [ok |-> FALSE, val |-> << >>]
        ELSE [ok |-> TRUE, val |-> decoded.val]

\* decode_bech32_public_key of examples/python/decode.py: the length test
\* is written `len(pubkey_bytes) not in (64)`; (64) is the integer 64, so
\* the test raises TypeError for every string that reaches it, and a string
\* that does not reach it has raised ValueError before
py_decode_bech32_public_key(bech32_string) ==
    LET r == bech32_decode(bech32_string)
        decoded == convertbits(r.data, 5, 8, FALSE)
    IN  IF r.none \/ r.hrp # ACPUB THEN [ok |-> FALSE, val |-> << >>]
        ELSE IF ~decoded.ok THEN [ok |-> FALSE, val |-> << >>]
        ELSE [ok |-> FALSE, val |-> << >>]

\* vk.to_string(): the 64 bytes of the public key of a key pair
public_bytes(key) == Repeat(key, PUB_LEN)

\* create_keys.py: bech32_encode("acpub", convertbits(public_bytes, 8, 5, True))
bech32_public(key) ==
    bech32_encode(ACPUB, convertbits(public_bytes(key), 8, 5, TRUE).val)

-----------------------------------------------------------------------------
(* UTF-8, as bytes.decode("utf-8", errors="replace").encode("utf-8") *)

REPLACEMENT == << 239, 191, 189 >>     \* U+FFFD encoded

IsCont(bs, i) == i <= Len(bs) /\ bs[i] >= 128 /\ bs[i] <= 191

\* whether bs[i + 1] may follow the lead byte bs[i]
SecondOk(bs, i) ==
    /\ i + 1 <= Len(bs)
    /\ LET lo == IF bs[i] = 224 THEN 160 ELSE IF bs[i] = 240 THEN 144 ELSE 128
           hi == IF bs[i] = 237 THEN 159 ELSE IF bs[i] = 244 THEN 143 ELSE 191
       IN  bs[i + 1] >= lo /\ bs[i + 1] <= hi

RECURSIVE utf8_replace_from(_, _)
utf8_replace_from(bs, i) ==
    IF i > Len(bs) THEN << >>
    ELSE LET b == bs[i]
             need == IF b < 128 THEN 1
                     ELSE IF b >= 194 /\ b <= 223 THEN 2
                     ELSE IF b >= 224 /\ b <= 239 THEN 3
                     ELSE IF b >= 240 /\ b <= 244 THEN 4
                     ELSE 0
             \* bytes of the longest well-formed prefix starting at i
             good == IF need <= 1 THEN 1
                     ELSE IF ~SecondOk(bs, i) THEN 1
                     ELSE IF need = 2 THEN 2
                     ELSE IF ~IsCont(bs, i + 2) THEN 2
                     ELSE IF need = 3 THEN 3
                     ELSE IF ~IsCont(bs, i + 3) THEN 3
                     ELSE 4
         IN  IF need # 0 /\ good = need
             THEN SubSeq(bs, i, i + need - 1) \o utf8_replace_from(bs, i + need)
             ELSE REPLACEMENT \o utf8_replace_from(bs, i + good)

\* diff_bytes.decode("utf-8", errors="replace") followed by .encode("utf-8")
utf8_replace(bs) == utf8_replace_from(bs, 1)

-----------------------------------------------------------------------------
(* The envelope: examples/anyfile/encode.py, examples/anyfile/decode.py,   *)
(* examples/diff/decode_diff.py, examples/python/decode.py                 *)

ByteVals == { 65, 255 }
MarkerPayload == << 105, 203, 34, 131, 80 >>   \* base64: acsig1A=
SigPayload == << 178, 40, 53 >>                \* base64: sig1
Payloads == SeqsUpTo(ByteVals, MaxBytes) \cup { MarkerPayload, SigPayload }

Scripts == { "anyfile", "diff", "python" }
NoOutput == [written |-> FALSE, bytes |-> << >>]

\* text.encode("utf-8") for base64 text
ascii(text) ==
    [ i \in 1..Len(text) |->
        LET n == IndexOf(text[i], B64) - 1
        IN  IF text[i] = "=" THEN 61
            ELSE IF n < 26 THEN 65 + n
            ELSE IF n < 52 THEN 97 + (n - 26)
            ELSE IF n < 62 THEN 48 + (n - 52)
            ELSE IF n = 62 THEN 43
            ELSE 47 ]

\* an encoder that signs the base64 text instead of the bytes
single_code_signing_base64_text(bytes, key) ==
    AC \o b64encode(bytes) \o encode_signature_bech32(sign(key, ascii(b64encode(bytes))))

\* the line examples/anyfile/encode.py and python/diff/encode_diff.py build
\* for the bytes of a file or diff and a key: the bytes are base64-encoded,
\* the same bytes are signed
single_code_of(bytes, key) ==
    AC \o b64encode(bytes) \o encode_signature_bech32(sign(key, bytes))

\* the backtick character, written by name
BACKTICK == "backtick"
FENCE == << BACKTICK, BACKTICK, BACKTICK >>

\* what examples/anyfile/encode.py writes to ac.txt: the line between two
\* fences of three backticks, each on its own line, no final newline
ac_txt(code) == FENCE \o << "\n" >> \o code \o << "\n" >> \o FENCE

\* What may reach a decoder when the encoder printed code for payload p
\* under key k: the line itself, the stripped content of the encoder's
\* ac.txt, the line without its prefix, the signature
\* alone, or the line with its body or signature removed, damaged (a
\* character added or removed) or taken from another line.
ReceivedLines(code, p, k) ==
    LET body == b64encode(p)
        sig == encode_signature_bech32(sign(k, p))
    IN  { code, Strip(ac_txt(code)), SliceFrom(code, 2), sig, AC \o body,
          AC \o << "A" >> \o sig,
          AC \o << "!" >> \o body \o sig,
          AC \o body \o << "a" >> \o sig,
          AC \o body \o << "a", "c" >> \o sig,
          AC \o body \o << "a", "c", "s" >> \o sig,
          AC \o body \o << "a", "c", "s", "i" >> \o sig,
          AC \o body \o << "a", "c", "s", "i", "g" >> \o sig,
          AC \o body \o Slice(sig, 0, Len(sig) - 1),
          AC \o body \o bech32_encode(ACSIG, convertbits(Repeat(0, SIG_LEN - 1), 8, 5, TRUE).val) }
        \cup { AC \o b64encode(q) \o sig : q \in Payloads }
        \cup { AC \o body \o encode_signature_bech32(sign(k2, p)) : k2 \in Keys }

InitEnv ==
    /\ payload \in Payloads
    /\ signer \in Keys
    /\ single_code = << >>
    /\ script = "none"
    /\ pub_key = 0
    /\ line = << >>
    /\ pc = "encode"
    /\ sig_index = -1
    /\ base64_part = << >>
    /\ signature_str = << >>
    /\ signature_bytes = << >>
    /\ file_bytes = << >>
    /\ verified = FALSE
    /\ output = NoOutput
    /\ error = ""

IdleEnv ==
    /\ payload = << >>
    /\ signer = 0
    /\ single_code = << >>
    /\ script = "none"
    /\ pub_key = 0
    /\ line = << >>
    /\ pc = "idle"
    /\ sig_index = -1
    /\ base64_part = << >>
    /\ signature_str = << >>
    /\ signature_bytes = << >>
    /\ file_bytes = << >>
    /\ verified = FALSE
    /\ output = NoOutput
    /\ error = ""

\* sys.exit(1) after a failed check
Exit(why) ==
    /\ pc' = "exit"
    /\ error' = why

\* examples/anyfile/encode.py main: base64, sign, build the single line
Encode ==
    /\ UNCHANGED << qrVars, auVars, keyVars, mapVars >>
    /\ pc = "encode"
    /\ single_code' = single_code_of(payload, signer)
    /\ pc' = "deliver"
    /\ UNCHANGED << payload, signer, script, pub_key, line, sig_index, base64_part,
                    signature_str, signature_bytes, file_bytes, verified, output, error >>

\* a decoder script is started and given a public key and a line
Deliver ==
    /\ UNCHANGED << qrVars, auVars, keyVars, mapVars >>
    /\ pc = "deliver"
    /\ \E l \in ReceivedLines(single_code, payload, signer), s \in Scripts, k \in Keys :
          /\ line' = l
          /\ script' = s
          /\ pub_key' = k
    /\ pc' = "prefix"
    /\ UNCHANGED << payload, signer, single_code, sig_index, base64_part,
                    signature_str, signature_bytes, file_bytes, verified, output, error >>

\* if not single_code_line.startswith("ac"): exit
CheckPrefix ==
    /\ UNCHANGED << qrVars, auVars, keyVars, mapVars >>
    /\ pc = "prefix"
    /\ IF StartsWith(line, AC)
       THEN pc' = "marker" /\ error' = error
       ELSE Exit("prefix")
    /\ UNCHANGED << payload, signer, single_code, script, pub_key, line, sig_index,
                    base64_part, signature_str, signature_bytes, file_bytes,
                    verified, output >>

\* where each script starts its search for the marker:
\* find("acsig1", 2) in anyfile/decode.py and decode_diff.py, find("acsig1")
\* in python/decode.py
search_start(s) == IF s = "python" THEN 0 ELSE 2

\* the first decoding step after the split: the signature in anyfile and
\* diff, the body in python/decode.py
AfterMarker(s) == IF s = "python" THEN "b64" ELSE "sig"

\* sig_index = line.find("acsig1", ...); body and signature are the slices
FindMarker ==
    /\ UNCHANGED << qrVars, auVars, keyVars, mapVars >>
    /\ pc = "marker"
    /\ LET idx == Find(line, MARKER, search_start(script))
       IN  /\ sig_index' = idx
           /\ IF idx = -1
              THEN /\ Exit("marker")
                   /\ UNCHANGED << base64_part, signature_str >>
              ELSE /\ base64_part' = Slice(line, 2, idx)
                   /\ signature_str' = SliceFrom(line, idx)
                   /\ pc' = AfterMarker(script)
                   /\ error' = error
    /\ UNCHANGED << payload, signer, single_code, script, pub_key, line,
                    signature_bytes, file_bytes, verified, output >>

\* signature_bytes = decode_bech32_signature(signature_str), exit on error
DecodeSignature ==
    /\ UNCHANGED << qrVars, auVars, keyVars, mapVars >>
    /\ pc = "sig"
    /\ LET r == decode_bech32_signature(signature_str)
       IN  IF r.ok
           THEN /\ signature_bytes' = r.val
                /\ pc' = IF script = "python" THEN "pywrite" ELSE "b64"
                /\ error' = error
           ELSE /\ Exit("signature")
                /\ UNCHANGED signature_bytes
    /\ UNCHANGED << payload, signer, single_code, script, pub_key, line, sig_index,
                    base64_part, signature_str, file_bytes, verified, output >>

\* file_bytes = base64.b64decode(base64_encoded), exit on error
DecodeBase64 ==
    /\ UNCHANGED << qrVars, auVars, keyVars, mapVars >>
    /\ pc = "b64"
    /\ LET r == b64decode(base64_part)
       IN  IF r.ok
           THEN /\ file_bytes' = r.val
                /\ pc' = IF script = "python" THEN "sig" ELSE "verify"
                /\ error' = error
           ELSE /\ Exit("base64")
                /\ UNCHANGED file_bytes
    /\ UNCHANGED << payload, signer, single_code, script, pub_key, line, sig_index,
                    base64_part, signature_str, signature_bytes, verified, output >>

\* vk.verify(signature_bytes, file_bytes); BadSignatureError exits
VerifySignature ==
    /\ UNCHANGED << qrVars, auVars, keyVars, mapVars >>
    /\ pc = "verify"
    /\ IF verify(pub_key, signature_bytes, file_bytes)
       THEN /\ verified' = TRUE
            /\ pc' = "effect"
            /\ error' = error
       ELSE /\ Exit("verify")
            /\ UNCHANGED verified
    /\ UNCHANGED << payload, signer, single_code, script, pub_key, line, sig_index,
                    base64_part, signature_str, signature_bytes, file_bytes, output >>

\* examples/anyfile/decode.py: open(target_file, "wb").write(file_bytes)
WriteFile ==
    /\ UNCHANGED << qrVars, auVars, keyVars, mapVars >>
    /\ pc = "effect"
    /\ script = "anyfile"
    /\ output' = [written |-> TRUE, bytes |-> file_bytes]
    /\ pc' = "done"
    /\ UNCHANGED << payload, signer, single_code, script, pub_key, line, sig_index,
                    base64_part, signature_str, signature_bytes, file_bytes,
                    verified, error >>

\* examples/diff/decode_diff.py: the diff is decoded to text with
\* errors="replace" and git apply is given the text encoded again
GitApply ==
    /\ UNCHANGED << qrVars, auVars, keyVars, mapVars >>
    /\ pc = "effect"
    /\ script = "diff"
    /\ output' = [written |-> TRUE, bytes |-> utf8_replace(file_bytes)]
    /\ pc' = "done"
    /\ UNCHANGED << payload, signer, single_code, script, pub_key, line, sig_index,
                    base64_part, signature_str, signature_bytes, file_bytes,
                    verified, error >>

\* examples/python/decode.py step 5: decoded_file is written before the
\* question about verification is asked
PyWriteFile ==
    /\ UNCHANGED << qrVars, auVars, keyVars, mapVars >>
    /\ pc = "pywrite"
    /\ output' = [written |-> TRUE, bytes |-> file_bytes]
    /\ pc' = "ask"
    /\ UNCHANGED << payload, signer, single_code, script, pub_key, line, sig_index,
                    base64_part, signature_str, signature_bytes, file_bytes,
                    verified, error >>

\* examples/python/decode.py step 6: verification is optional; with "y" the
\* public key is decoded first and the script exits when that fails
PyOptionalVerify ==
    /\ UNCHANGED << qrVars, auVars, keyVars, mapVars >>
    /\ pc = "ask"
    /\ \E answer \in { "y", "n" } :
          IF answer = "y"
          THEN LET k == py_decode_bech32_public_key(bech32_public(pub_key))
               IN  IF ~k.ok
                   THEN Exit("pubkey") /\ UNCHANGED verified
                   ELSE /\ verified' = verify(pub_key, signature_bytes, file_bytes)
                        /\ pc' = "done"
                        /\ error' = error
          ELSE /\ pc' = "done"
               /\ UNCHANGED << verified, error >>
    /\ UNCHANGED << payload, signer, single_code, script, pub_key, line, sig_index,
                    base64_part, signature_str, signature_bytes, file_bytes, output >>

-----------------------------------------------------------------------------
(* Key and signature strings: create_keys.py and encode_signature_bech32
   write them, the decode_bech32_* functions of every script read them *)

OTHER_TAG == << "a", "c", "x" >>
KeyTags == { ACSEC, ACPUB, ACSIG, OTHER_TAG }
KeyFills == { 7, 255 }
KeyLengths ==
    ((SEC_LEN - MaxKeySlack)..(SEC_LEN + MaxKeySlack))
        \cup ((PUB_LEN - MaxKeySlack)..(PUB_LEN + MaxKeySlack))
KeyForms == { "plain", "upper", "mixed", "checksum", "cut" }

PrivateKeyScripts == { "anyfile/encode", "diff/encode_diff", "python/decode" }
PublicKeyScripts == { "anyfile/decode", "diff/decode_diff", "python/decode" }
SignatureScripts == { "anyfile/decode", "diff/decode_diff", "python/decode" }

\* the string as it reaches the decoder: as encoded, in upper case, with its
\* first letter in upper case, with its last character changed, or without
\* its last character
Altered(str, form) ==
    LET last == str[Len(str)]
        other == CHARSET[(IndexOf(last, CHARSET) % Len(CHARSET)) + 1]
    IN  CASE form = "upper"    -> ToUpper(str)
          [] form = "mixed"    -> ToUpper(SubSeq(str, 1, 1)) \o Tail(str)
          [] form = "checksum" -> SubSeq(str, 1, Len(str) - 1) \o << other >>
          [] form = "cut"      -> SubSeq(str, 1, Len(str) - 1)
          [] OTHER             -> str

NotCalled == [ok |-> FALSE, val |-> << "not called" >>]

InitKeys ==
    /\ key_tag \in KeyTags
    /\ key_payload \in { Repeat(fill, n) : fill \in KeyFills, n \in KeyLengths }
    /\ key_form \in KeyForms
    /\ key_string = << >>
    /\ key_decoder = [script |-> "none", function |-> "none"]
    /\ key_result = NotCalled
    /\ key_pc = "encode"

\* bech32_encode(tag, convertbits(bytes, 8, 5, True)), as in create_keys.py
\* and encode_signature_bech32, and the way to the reader
MakeKeyString ==
    /\ UNCHANGED << envVars, qrVars, auVars, mapVars >>
    /\ key_pc = "encode"
    /\ key_string' = Altered(bech32_encode(key_tag, convertbits(key_payload, 8, 5, TRUE).val),
                             key_form)
    /\ key_pc' = "decode"
    /\ UNCHANGED << key_tag, key_payload, key_form, key_decoder, key_result >>

\* decode_bech32_private_key(bech32_privkey) in an encoder script
DecodePrivateKey ==
    /\ UNCHANGED << envVars, qrVars, auVars, mapVars >>
    /\ key_pc = "decode"
    /\ \E sc \in PrivateKeyScripts :
          key_decoder' = [script |-> sc, function |-> "decode_bech32_private_key"]
    /\ key_result' = decode_bech32_private_key(key_string)
    /\ key_pc' = "done"
    /\ UNCHANGED << key_tag, key_payload, key_form, key_string >>

\* decode_bech32_public_key(pubkey_bech32) in a decoder script
DecodePublicKey ==
    /\ UNCHANGED << envVars, qrVars, auVars, mapVars >>
    /\ key_pc = "decode"
    /\ \E sc \in PublicKeyScripts :
          /\ key_decoder' = [script |-> sc, function |-> "decode_bech32_public_key"]
          /\ key_result' = IF sc = "python/decode"
                           THEN py_decode_bech32_public_key(key_string)
                           ELSE decode_bech32_public_key(key_string)
    /\ key_pc' = "done"
    /\ UNCHANGED << key_tag, key_payload, key_form, key_string >>

\* decode_bech32_signature(signature_str) in a decoder script
DecodeSignatureString ==
    /\ UNCHANGED << envVars, qrVars, auVars, mapVars >>
    /\ key_pc = "decode"
    /\ \E sc \in SignatureScripts :
          key_decoder' = [script |-> sc, function |-> "decode_bech32_signature"]
    /\ key_result' = decode_bech32_signature(key_string)
    /\ key_pc' = "done"
    /\ UNCHANGED << key_tag, key_payload, key_form, key_string >>

-----------------------------------------------------------------------------
(* The QR channel: examples/ac_to_qr.py, python/qr/qr_to_ac.py *)

DIGITS == << "0", "1", "2", "3", "4", "5", "6", "7", "8", "9" >>
QRSEP == << "Q", "R", ":", " " >>

RECURSIVE DecStr(_)
\* str(n) for n >= 0, as the f-string writes the index and the total
DecStr(n) ==
    IF n < 10 THEN << DIGITS[n + 1] >>
    ELSE DecStr(n \div 10) \o << DIGITS[(n % 10) + 1] >>

RECURSIVE DigitsValue(_, _)
DigitsValue(s, acc) ==
    IF Len(s) = 0 THEN acc
    ELSE IF s[1] = "_" THEN DigitsValue(Tail(s), acc)
    ELSE DigitsValue(Tail(s), acc * 10 + (IndexOf(s[1], DIGITS) - 1))

\* int() on the digits after the optional sign: digits may be separated by
\* single underscores; [ok, val], ok = FALSE stands for ValueError
int_of_digits(d, negative) ==
    LET wellFormed ==
            /\ Len(d) > 0
            /\ \A i \in 1..Len(d) : d[i] = "_" \/ IndexOf(d[i], DIGITS) # 0
            /\ d[1] # "_" /\ d[Len(d)] # "_"
            /\ \A i \in 1..(Len(d) - 1) : ~(d[i] = "_" /\ d[i + 1] = "_")
    IN  IF ~wellFormed THEN [ok |-> FALSE, val |-> 0]
        ELSE [ok |-> TRUE,
              val |-> IF negative THEN 0 - DigitsValue(d, 0) ELSE DigitsValue(d, 0)]

\* int() on a string without surrounding whitespace: one sign is allowed
int_of_stripped(t) ==
    IF Len(t) > 0 /\ t[1] \in { "+", "-" }
    THEN int_of_digits(Tail(t), t[1] = "-")
    ELSE int_of_digits(t, FALSE)

\* int(s): surrounding whitespace is stripped first
py_int(s) == int_of_stripped(Strip(s))

\* the text of frame number i of total: f"{i}P{total}QR: " + chunk
Frame(i, total, chunk) ==
    DecStr(i) \o << "P" >> \o DecStr(total) \o QRSEP \o chunk

\* a split step that numbers the frames from 0
split_labelling_from_zero(base64_data, size) ==
    LET total_parts == (Len(base64_data) + size - 1) \div size
    IN  [ n \in 1..total_parts |->
            Frame(n - 1, total_parts, Slice(base64_data, (n - 1) * size, n * size)) ]

\* split_and_generate_qr_gif: the strings added to the frames, in order.
\* total_parts = ceil(len / chunk_size); every chunk is labelled.
split_and_generate_qr_gif(base64_data, size) ==
    LET total_parts == (Len(base64_data) + size - 1) \div size
    IN  [ n \in 1..total_parts |->
            Frame(n, total_parts, Slice(base64_data, (n - 1) * size, n * size)) ]

\* the outcome of the try block when it raises ValueError
BadPart == [ok |-> FALSE, part_num |-> 0, total |-> 0, b64data |-> << >>]

\* int(part_num), int(total) for the two fields of the label
parse_fields(num, tot, b64data) ==
    IF ~num.ok \/ ~tot.ok THEN BadPart
    ELSE [ok |-> TRUE, part_num |-> num.val, total |-> tot.val, b64data |-> b64data]

\* part_num, total = label.split("P"): exactly one "P" in the label
parse_label(label, ps, b64data) ==
    IF Cardinality(ps) # 1 THEN BadPart
    ELSE parse_fields(py_int(SubSeq(label, 1, Min(ps) - 1)),
                      py_int(SubSeq(label, Min(ps) + 1, Len(label))),
                      b64data)

\* label, b64data = data.split("QR: ", 1), the separator found at offset at
split_at(data, at) ==
    IF at = -1 THEN BadPart
    ELSE parse_label(Slice(data, 0, at),
                     { i \in 1..at : data[i] = "P" },
                     SliceFrom(data, at + Len(QRSEP)))

\* the try block of reconstruct_base64 for one string:
\*   label, b64data = data.split("QR: ", 1)
\*   part_num, total = label.split("P"); int(part_num); int(total)
\* ok = FALSE stands for the ValueError the loop catches
parse_part(data) == split_at(data, Find(data, QRSEP, 0))

RECURSIVE collect_parts(_, _, _, _)
\* the for loop of reconstruct_base64: parts[part_num] = b64data and
\* total_parts = total for every string, in list order.  total_parts is
\* << >> for None.
collect_parts(list, i, parts, total_parts) ==
    IF i > Len(list) THEN [ok |-> TRUE, parts |-> parts, total_parts |-> total_parts]
    ELSE LET r == parse_part(list[i])
         IN  IF ~r.ok THEN [ok |-> FALSE, parts |-> parts, total_parts |-> total_parts]
             ELSE collect_parts(list, i + 1,
                                [ k \in (DOMAIN parts) \cup { r.part_num } |->
                                    IF k = r.part_num THEN r.b64data ELSE parts[k] ],
                                << r.total >>)

RECURSIVE Join(_, _, _)
\* ''.join(parts[i] for i in range(lo, hi + 1))
Join(parts, lo, hi) ==
    IF lo > hi THEN << >> ELSE parts[lo] \o Join(parts, lo + 1, hi)

RECURSIVE JoinInListOrder(_, _)
JoinInListOrder(list, i) ==
    IF i > Len(list) THEN << >>
    ELSE parse_part(list[i]).b64data \o JoinInListOrder(list, i + 1)

\* reconstruct_base64 joining the chunks in the order they were scanned
reconstruct_in_scan_order(list) ==
    IF Len(list) = 1 THEN [kind |-> "ok", val |-> list[1]]
    ELSE LET c == collect_parts(list, 1, << >>, << >>)
         IN  IF ~c.ok THEN [kind |-> "format", val |-> << >>]
             ELSE IF c.total_parts = << >> \/ Cardinality(DOMAIN c.parts) # c.total_parts[1]
             THEN [kind |-> "missing", val |-> << >>]
             ELSE [kind |-> "ok", val |-> JoinInListOrder(list, 1)]

\* reconstruct_base64(data_list): what the call ends in.
\*   "ok"       it returns val
\*   "format"   "Unexpected data format", sys.exit(1)
\*   "missing"  "Missing QR code parts", sys.exit(1)
\*   "keyerror" parts[i] raises KeyError in the join
reconstruct_base64(list) ==
    IF Len(list) = 1 THEN [kind |-> "ok", val |-> list[1]]
    ELSE LET c == collect_parts(list, 1, << >>, << >>)
         IN  IF ~c.ok THEN [kind |-> "format", val |-> << >>]
             ELSE IF c.total_parts = << >> \/ Cardinality(DOMAIN c.parts) # c.total_parts[1]
             THEN [kind |-> "missing", val |-> << >>]
             ELSE IF \E i \in 1..c.total_parts[1] : i \notin DOMAIN c.parts
             THEN [kind |-> "keyerror", val |-> << >>]
             ELSE [kind |-> "ok", val |-> Join(c.parts, 1, c.total_parts[1])]

QRChars == { "A", "B" }
OtherChar(ch) == IF ch = "A" THEN "B" ELSE "A"

\* a frame with the label of f and another chunk
Conflicting(f) ==
    LET r == parse_part(f)
    IN  Frame(r.part_num, r.total, << OtherChar(r.b64data[1]) >> \o Tail(r.b64data))

\* a frame with the index and chunk of f declaring one part more
Retotalled(f) ==
    LET r == parse_part(f)
    IN  Frame(r.part_num, r.total + 1, r.b64data)

\* frames with the chunk of f whose label is written another way: the index
\* signed, padded with a blank, zero or negative, the total zero or signed,
\* or no label at all
Relabelled(i, t, chunk) ==
    { << "+" >> \o i \o << "P" >> \o t \o QRSEP \o chunk,
      << " " >> \o i \o << "P" >> \o t \o QRSEP \o chunk,
      << "0", "P" >> \o t \o QRSEP \o chunk,
      << "-" >> \o i \o << "P" >> \o t \o QRSEP \o chunk,
      i \o << "P", "0" >> \o QRSEP \o chunk,
      i \o << "P", "+" >> \o t \o QRSEP \o chunk,
      chunk }

\* the mislabelled frames for a parsed frame r
MislabelledAs(r) == Relabelled(DecStr(r.part_num), DecStr(r.total), r.b64data)

\* the mislabelled frames with the chunk of frame f
Mislabelled(f) == MislabelledAs(parse_part(f))

InsertAt(list, k, x) == SubSeq(list, 1, k - 1) \o << x >> \o SubSeq(list, k, Len(list))
ReplaceAt(list, k, x) == [ i \in 1..Len(list) |-> IF i = k THEN x ELSE list[i] ]
RemoveAt(list, k) == SubSeq(list, 1, k - 1) \o SubSeq(list, k + 1, Len(list))

\* What the scanner may hand over for a GIF made from `fs`: any non-empty
\* list of at most MaxScan of its frames (frames lost, repeated or out of
\* order), or all of them with one foreign frame added or substituted.
ScannedLists(fs) ==
    LET labelled == { i \in 1..Len(fs) : parse_part(fs[i]).ok }
        foreign == { Conflicting(fs[i]) : i \in labelled }
                       \cup { Retotalled(fs[i]) : i \in labelled }
                       \cup UNION { Mislabelled(fs[i]) : i \in labelled }
    IN  (SeqsUpTo(Range(fs), MaxScan) \ { << >> })
        \cup { InsertAt(fs, k, g) : k \in 1..(Len(fs) + 1), g \in foreign }
        \cup { ReplaceAt(fs, k, g) : k \in 1..Len(fs), g \in foreign }

InitQR ==
    /\ qr_body \in (SeqsUpTo(QRChars, MaxBody) \ { << >> })
    /\ chunk_size \in 1..MaxChunk
    /\ frames = << >>
    /\ data_list = << >>
    /\ qr_result = [kind |-> "none", val |-> << >>]
    /\ qr_pc = "split"

\* examples/ac_to_qr.py split_and_generate_qr_gif
SplitStep ==
    /\ UNCHANGED << envVars, auVars, keyVars, mapVars >>
    /\ qr_pc = "split"
    /\ frames' = split_and_generate_qr_gif(qr_body, chunk_size)
    /\ qr_pc' = "scan"
    /\ UNCHANGED << qr_body, chunk_size, data_list, qr_result >>

\* the length above which examples/ac_to_qr.py main splits, and the chunk
\* size split_and_generate_qr_gif has by default
QR_LIMIT == 500
DEFAULT_CHUNK_SIZE == 500

\* a main that takes the split path for every input
main_always_splitting(base64_encoded) ==
    split_and_generate_qr_gif(base64_encoded, DEFAULT_CHUNK_SIZE)

\* a main that takes the split path from 500 characters on
main_splitting_from_limit(base64_encoded) ==
    IF Len(base64_encoded) >= QR_LIMIT
    THEN split_and_generate_qr_gif(base64_encoded, DEFAULT_CHUNK_SIZE)
    ELSE << base64_encoded >>

\* examples/ac_to_qr.py main step 3: the strings of the QR codes written,
\* the GIF frames of split_and_generate_qr_gif for more than 500
\* characters, otherwise the one code of generate_qr_code
ac_to_qr_main(base64_encoded) ==
    IF Len(base64_encoded) > QR_LIMIT
    THEN split_and_generate_qr_gif(base64_encoded, DEFAULT_CHUNK_SIZE)
    ELSE << base64_encoded >>

\* a string of n characters over QRChars whose character changes with every
\* chunk of the default size
LongBody(n, first) ==
    [ i \in 1..n |->
        IF ((i - 1) \div DEFAULT_CHUNK_SIZE) % 2 = 0 THEN first ELSE OtherChar(first) ]

\* the strings main is run on: short ones, and ones around the limit and
\* beyond two chunks
MainBodies ==
    (SeqsUpTo(QRChars, MaxBody) \ { << >> })
        \cup { LongBody(n, first) :
                 n \in ((QR_LIMIT - 1)..(QR_LIMIT + MaxOver))
                           \cup ((2 * QR_LIMIT)..(2 * QR_LIMIT + MaxOver)),
                 first \in QRChars }

InitQRMain ==
    /\ qr_body \in MainBodies
    /\ chunk_size = DEFAULT_CHUNK_SIZE
    /\ frames = << >>
    /\ data_list = << >>
    /\ qr_result = [kind |-> "none", val |-> << >>]
    /\ qr_pc = "main"

\* examples/ac_to_qr.py main step 3
MainStep ==
    /\ UNCHANGED << envVars, auVars, keyVars, mapVars >>
    /\ qr_pc = "main"
    /\ frames' = ac_to_qr_main(qr_body)
    /\ qr_pc' = "scan"
    /\ UNCHANGED << qr_body, chunk_size, data_list, qr_result >>

\* python/qr/qr_to_ac.py read_qr_image_opencv: the decoded strings, one per
\* frame in which a code was detected
Scan ==
    /\ UNCHANGED << envVars, auVars, keyVars, mapVars >>
    /\ qr_pc = "scan"
    /\ data_list' \in ScannedLists(frames)
    /\ qr_pc' = "join"
    /\ UNCHANGED << qr_body, chunk_size, frames, qr_result >>

\* python/qr/qr_to_ac.py main step 2: reconstruct_base64(data_list)
Reconstruct ==
    /\ UNCHANGED << envVars, auVars, keyVars, mapVars >>
    /\ qr_pc = "join"
    /\ qr_result' = reconstruct_base64(data_list)
    /\ qr_pc' = "done"
    /\ UNCHANGED << qr_body, chunk_size, frames, data_list >>

-----------------------------------------------------------------------------
(* The audio channel: examples/python/sound/ac_to_sound.py,
   examples/ac_to_sound.py, python/sound/sound_to_ac.py *)

SAMPLE_RATE == 44100
BIT_DURATION_MS == 50        \* BIT_DURATION = 0.05 s
FREQ_TOLERANCE == 10
FREQ_START == 300
FREQ_STEP == 50

\* BASE64_CHARS of the decoder, python/sound/sound_to_ac.py
BASE64_CHARS == B64

\* BASE64_CHARS of each encoder script
EncoderScripts == { "python/sound/ac_to_sound", "ac_to_sound" }
ENCODER_BASE64_CHARS(enc) ==
    IF enc = "python/sound/ac_to_sound" THEN B64 \o << "=" >> ELSE B64

\* int(sample_rate * bit_duration)
samples_per_bit(sample_rate) == (sample_rate * BIT_DURATION_MS) \div 1000

RECURSIVE generate_audio_from_base64(_, _)
\* generate_audio_from_base64: one tone per character of the encoder's
\* alphabet at FREQ_START + index * FREQ_STEP, the other characters are
\* skipped.  A tone is kept as [char, freq]; the waveform is built from the
\* tones by Waveform.
generate_audio_from_base64(enc, base64_str) ==
    IF Len(base64_str) = 0 THEN << >>
    ELSE LET char == base64_str[1]
             index == IndexOf(char, ENCODER_BASE64_CHARS(enc)) - 1
             rest == generate_audio_from_base64(enc, Tail(base64_str))
         IN  IF index >= 0
             THEN << [char |-> char, freq |-> FREQ_START + index * FREQ_STEP] >> \o rest
             ELSE rest

\* generate_tone + np.concatenate: the waveform as runs of n samples of a
\* pure sine at freq (freq = 0 is silence)
Waveform(tones) ==
    [ i \in 1..Len(tones) |-> [freq |-> tones[i].freq, n |-> samples_per_bit(SAMPLE_RATE)] ]

RECURSIVE SamplesIn(_)
\* len(audio_data)
SamplesIn(runs) ==
    IF Len(runs) = 0 THEN 0 ELSE runs[1].n + SamplesIn(Tail(runs))

\* audio_data[start:end] on runs
SliceRuns(runs, start, end) ==
    LET from(j) == SamplesIn(SubSeq(runs, 1, j - 1))
        clipped == [ j \in 1..Len(runs) |->
                       [freq |-> runs[j].freq,
                        n |-> Max({ 0, Min({ end, from(j) + runs[j].n }) - Max({ start, from(j) }) })] ]
        NonEmpty(r) == r.n > 0
    IN  SelectSeq(clipped, NonEmpty)

\* a windowing that leaves a short last window as it is
split_without_padding(data, sample_rate, spb) ==
    LET total_bits == (SamplesIn(data) + spb - 1) \div spb
    IN  [ i \in 1..total_bits |-> SliceRuns(data, (i - 1) * spb, i * spb) ]

\* split_audio_into_bits: ceil(len / samples_per_bit) windows of
\* samples_per_bit samples, the last one padded with zeros
split_audio_into_bits(data, sample_rate, spb) ==
    LET total_bits == (SamplesIn(data) + spb - 1) \div spb
    IN  [ i \in 1..total_bits |->
            LET segment == SliceRuns(data, (i - 1) * spb, i * spb)
                short == spb - SamplesIn(segment)
            IN  IF short > 0 THEN segment \o << [freq |-> 0, n |-> short] >>
                ELSE segment ]

\* the positive FFT bins k (frequency k * sample_rate / N) nearest to a tone
NearestBins(freq, N, sample_rate) ==
    LET lo == (freq * N) \div sample_rate
        cand == { k \in { lo, lo + 1 } : k >= 1 /\ 2 * k < N }
        dist(k) == IF k * sample_rate >= freq * N THEN k * sample_rate - freq * N
                   ELSE freq * N - k * sample_rate
    IN  { k \in cand : \A m \in cand : dist(k) <= dist(m) }

NoPeak == [peak |-> FALSE, num |-> 0, den |-> 1]

\* detect_frequency: the outcomes of fft + find_peaks + "take the first
\* peak" on a window.  A pure tone has its one peak at the bin nearest to
\* the tone; a tone halfway between two bins may peak at either.  Silence
\* has no peak (ValueError).  For a window holding several runs the peak is
\* taken to be the bin of one of its tones.  peak_freq is num / den.
detect_frequency(segment, sample_rate) ==
    LET N == SamplesIn(segment)
        tones == { segment[j].freq : j \in 1..Len(segment) } \ { 0 }
    IN  IF tones = {} THEN { NoPeak }
        ELSE { [peak |-> TRUE, num |-> k * sample_rate, den |-> N] :
                  k \in UNION { NearestBins(f, N, sample_rate) : f \in tones } }

Abs(x) == IF x < 0 THEN 0 - x ELSE x

\* a mapping that returns the character of the nearest slot whatever the
\* distance
map_frequency_to_nearest_slot(num, den) ==
    LET dist(index) == Abs(num - (FREQ_START + index * FREQ_STEP) * den)
        nearest == { index \in 0..(Len(BASE64_CHARS) - 1) :
                       \A other \in 0..(Len(BASE64_CHARS) - 1) : dist(index) <= dist(other) }
    IN  [ok |-> TRUE, char |-> BASE64_CHARS[Min(nearest) + 1]]

\* map_frequency_to_base64_char comparing with < instead of <=
map_frequency_strictly_within(num, den) ==
    LET hits == { index \in 0..(Len(BASE64_CHARS) - 1) :
                    Abs(num - (FREQ_START + index * FREQ_STEP) * den) < FREQ_TOLERANCE * den }
    IN  IF hits = {} THEN [ok |-> FALSE, char |-> ""]
        ELSE [ok |-> TRUE, char |-> BASE64_CHARS[Min(hits) + 1]]

\* map_frequency_to_base64_char: the first character of BASE64_CHARS whose
\* expected frequency is within FREQ_TOLERANCE of frequency = num / den
map_frequency_to_base64_char(num, den) ==
    LET hits == { index \in 0..(Len(BASE64_CHARS) - 1) :
                    Abs(num - (FREQ_START + index * FREQ_STEP) * den) <= FREQ_TOLERANCE * den }
    IN  IF hits = {} THEN [ok |-> FALSE, char |-> ""]
        ELSE [ok |-> TRUE, char |-> BASE64_CHARS[Min(hits) + 1]]

AudioChars == { "A", "B", "/", "=", "!" }

InitAudio ==
    /\ au_script \in EncoderScripts
    /\ au_body \in (SeqsUpTo(AudioChars, MaxAudioLen) \ { << >> })
    /\ au_tones = << >>
    /\ audio_data = << >>
    /\ samplerate = 0
    /\ segments = << >>
    /\ seg_i = 0
    /\ base64_chars = << >>
    /\ dropped = 0
    /\ au_pc = "modulate"

\* encoder main step 3: generate_audio_from_base64, sys.exit(1) without
\* tones; the waveform is saved or played at SAMPLE_RATE
Modulate ==
    /\ UNCHANGED << envVars, qrVars, keyVars, mapVars >>
    /\ au_pc = "modulate"
    /\ LET tones == generate_audio_from_base64(au_script, au_body)
       IN  /\ au_tones' = tones
           /\ audio_data' = Waveform(tones)
           /\ samplerate' = SAMPLE_RATE
           /\ au_pc' = IF tones = << >> THEN "no_tones" ELSE "split"
    /\ UNCHANGED << au_script, au_body, segments, seg_i, base64_chars, dropped >>

\* sound_to_ac.py main step 2
SplitAudio ==
    /\ UNCHANGED << envVars, qrVars, keyVars, mapVars >>
    /\ au_pc = "split"
    /\ segments' = split_audio_into_bits(audio_data, samplerate, samples_per_bit(samplerate))
    /\ seg_i' = 1
    /\ au_pc' = "detect"
    /\ UNCHANGED << au_script, au_body, au_tones, audio_data, samplerate, base64_chars, dropped >>

\* sound_to_ac.py main step 3, one iteration of the loop: a ValueError of
\* detect_frequency or map_frequency_to_base64_char skips the segment
DetectSegment ==
    /\ UNCHANGED << envVars, qrVars, keyVars, mapVars >>
    /\ au_pc = "detect"
    /\ seg_i <= Len(segments)
    /\ \E freq \in detect_frequency(segments[seg_i], samplerate) :
          LET r == map_frequency_to_base64_char(freq.num, freq.den)
          IN  IF freq.peak /\ r.ok
              THEN /\ base64_chars' = Append(base64_chars, r.char)
                   /\ dropped' = dropped
              ELSE /\ base64_chars' = base64_chars
                   /\ dropped' = dropped + 1
    /\ seg_i' = seg_i + 1
    /\ UNCHANGED << au_script, au_body, au_tones, audio_data, samplerate, segments, au_pc >>

\* sound_to_ac.py main after the loop: exit when nothing was decoded, else
\* the characters are joined
FinishAudio ==
    /\ UNCHANGED << envVars, qrVars, keyVars, mapVars >>
    /\ au_pc = "detect"
    /\ seg_i > Len(segments)
    /\ au_pc' = IF base64_chars = << >> THEN "no_chars" ELSE "done"
    /\ UNCHANGED << au_script, au_body, au_tones, audio_data, samplerate, segments, seg_i,
                    base64_chars, dropped >>

-----------------------------------------------------------------------------
(* split_audio_into_bits on recordings of any length *)

\* sample rates of the audio files read: the encoders' rate and two low
\* rates that give windows of 1 and 3 samples
RecordingRates == { 20, 60, SAMPLE_RATE }

\* the waveforms read at a rate: at most MaxRuns runs of one of two tones,
\* each of one sample or of about one window
Recordings(rate) ==
    LET w == samples_per_bit(rate)
        runs == [ freq : { FREQ_START, FREQ_START + FREQ_STEP },
                  n : { 1, w - 1, w, w + 1 } \ { 0 } ]
    IN  SeqsUpTo(runs, MaxRuns) \ { << >> }

\* sound_to_ac.py main step 1: read_audio_file has returned the data and
\* the sample rate of a file
InitWindow ==
    /\ au_script = "none"
    /\ au_body = << >>
    /\ au_tones = << >>
    /\ samplerate \in RecordingRates
    /\ audio_data \in Recordings(samplerate)
    /\ segments = << >>
    /\ seg_i = 0
    /\ base64_chars = << >>
    /\ dropped = 0
    /\ au_pc = "split"

-----------------------------------------------------------------------------
(* map_frequency_to_base64_char on frequencies around the slots *)

\* frequencies are taken in whole and in half Hz
MapDens == { 1, 2 }

InitMap ==
    /\ map_slot \in 0..(Len(BASE64_CHARS) - 1)
    /\ map_den \in MapDens
    /\ \E k \in (0 - MaxDetune * map_den)..(MaxDetune * map_den) :
          map_num = (FREQ_START + map_slot * FREQ_STEP) * map_den + k
    /\ map_result = [ok |-> FALSE, char |-> "not called"]
    /\ map_pc = "call"

\* char = map_frequency_to_base64_char(freq)
MapFrequency ==
    /\ UNCHANGED << envVars, qrVars, auVars, keyVars >>
    /\ map_pc = "call"
    /\ map_result' = map_frequency_to_base64_char(map_num, map_den)
    /\ map_pc' = "done"
    /\ UNCHANGED << map_slot, map_num, map_den >>

-----------------------------------------------------------------------------
(* Specifications *)

IdleQR ==
    /\ qr_body = << >>
    /\ chunk_size = 0
    /\ frames = << >>
    /\ data_list = << >>
    /\ qr_result = [kind |-> "none", val |-> << >>]
    /\ qr_pc = "idle"

IdleKeys ==
    /\ key_tag = << >>
    /\ key_payload = << >>
    /\ key_form = "none"
    /\ key_string = << >>
    /\ key_decoder = [script |-> "none", function |-> "none"]
    /\ key_result = NotCalled
    /\ key_pc = "idle"

IdleMap ==
    /\ map_slot = 0
    /\ map_num = 0
    /\ map_den = 1
    /\ map_result = [ok |-> FALSE, char |-> "not called"]
    /\ map_pc = "idle"

IdleAudio ==
    /\ au_script = "none"
    /\ au_body = << >>
    /\ au_tones = << >>
    /\ audio_data = << >>
    /\ samplerate = 0
    /\ segments = << >>
    /\ seg_i = 0
    /\ base64_chars = << >>
    /\ dropped = 0
    /\ au_pc = "idle"

Init == InitEnv /\ IdleQR /\ IdleAudio /\ IdleKeys /\ IdleMap

Next ==
    \/ Encode
    \/ Deliver
    \/ CheckPrefix
    \/ FindMarker
    \/ DecodeSignature
    \/ DecodeBase64
    \/ VerifySignature
    \/ WriteFile
    \/ GitApply
    \/ PyWriteFile
    \/ PyOptionalVerify

Spec == Init /\ [][Next]_vars

InitQRSpec == IdleEnv /\ InitQR /\ IdleAudio /\ IdleKeys /\ IdleMap

NextQR ==
    \/ SplitStep
    \/ Scan
    \/ Reconstruct

SpecQR == InitQRSpec /\ [][NextQR]_vars

InitQRMainSpec == IdleEnv /\ InitQRMain /\ IdleAudio /\ IdleKeys /\ IdleMap

NextQRMain ==
    \/ MainStep
    \/ Scan
    \/ Reconstruct

SpecQRMain == InitQRMainSpec /\ [][NextQRMain]_vars

InitAudioSpec == IdleEnv /\ IdleQR /\ InitAudio /\ IdleKeys /\ IdleMap

NextAudio ==
    \/ Modulate
    \/ SplitAudio
    \/ DetectSegment
    \/ FinishAudio

SpecAudio == InitAudioSpec /\ [][NextAudio]_vars

InitWindowSpec == IdleEnv /\ IdleQR /\ InitWindow /\ IdleKeys /\ IdleMap

NextWindow == SplitAudio

SpecWindow == InitWindowSpec /\ [][NextWindow]_vars

InitKeysSpec == IdleEnv /\ IdleQR /\ IdleAudio /\ InitKeys /\ IdleMap

NextKeys ==
    \/ MakeKeyString
    \/ DecodePrivateKey
    \/ DecodePublicKey
    \/ DecodeSignatureString

SpecKeys == InitKeysSpec /\ [][NextKeys]_vars

InitMapSpec == IdleEnv /\ IdleQR /\ IdleAudio /\ IdleKeys /\ InitMap

NextMap == MapFrequency

SpecMap == InitMapSpec /\ [][NextMap]_vars

-----------------------------------------------------------------------------
(* Claims about the envelope, checked under Spec *)

\* the decoder has run its marker search on a line that passed the prefix check
MarkerSearched ==
    /\ pc \notin { "encode", "deliver", "prefix", "marker" }
    /\ error # "prefix"

\* C1: envelope round trip.  When the line the encoder built for the payload
\* ("ac" + base64(payload) + signature) is parsed by anyfile/decode.py or
\* decode_diff.py (prefix check, find 'acsig1' from offset 2, slice), the
\* body is base64(payload) and the signature is the encoder's signature.
C1_EnvelopeRoundTrip ==
    (script \in { "anyfile", "diff" } /\ line = single_code /\ MarkerSearched) =>
        /\ sig_index # -1
        /\ base64_part = b64encode(payload)
        /\ signature_str = encode_signature_bech32(sign(signer, payload))

\* C2: signature-gated effect.  In anyfile/decode.py and decode_diff.py the
\* file is written / git apply is run only when the signature carried in the
\* line has been verified against the base64-decoded body, and a run that
\* exits on a failed check has written or applied nothing.
C2_SignatureGatedEffect ==
    script \in { "anyfile", "diff" } =>
        /\ output.written =>
              /\ verified
              /\ error = ""
              /\ StartsWith(line, AC)
              /\ sig_index >= 2
              /\ signature_str = SliceFrom(line, sig_index)
              /\ base64_part = Slice(line, 2, sig_index)
              /\ decode_bech32_signature(signature_str) = [ok |-> TRUE, val |-> signature_bytes]
              /\ b64decode(base64_part) = [ok |-> TRUE, val |-> file_bytes]
              /\ signature_bytes = sign(pub_key, file_bytes)
        /\ error # "" => output = NoOutput /\ pc = "exit"

\* C2 witness: anyfile/decode.py has written a non-empty verified file
C2_Witness ==
    /\ script = "anyfile"
    /\ pc = "done"
    /\ verified
    /\ output = [written |-> TRUE, bytes |-> payload]
    /\ Len(payload) > 0

\* C3: envelope split rule.  In every decoder script, for a line starting
\* with 'ac', the split point is the first occurrence of 'acsig1' at or
\* after offset 2 (offset 2 itself included, offset 0 never), the signature
\* is the line from there on and the body the text between offset 2 and it.
C3_SplitRule ==
    (script \in Scripts /\ MarkerSearched) =>
        LET occ == { i \in 2..(Len(line) - Len(MARKER)) :
                        SubSeq(line, i + 1, i + Len(MARKER)) = MARKER }
        IN  occ # {} =>
               /\ sig_index = Min(occ)
               /\ signature_str = SliceFrom(line, Min(occ))
               /\ base64_part = Slice(line, 2, Min(occ))

-----------------------------------------------------------------------------
(* Claims about the QR channel, checked under SpecQR *)

\* C4: QR gap detection.  When the scanner hands over a complete labelled
\* frame set of two or more frames with one frame missing,
\* reconstruct_base64 ends in the missing-parts failure.
C4_GapDetection ==
    (/\ qr_pc = "done"
     /\ Len(frames) >= 2
     /\ \E k \in 1..Len(frames) : data_list = RemoveAt(frames, k))
        => qr_result.kind = "missing"

\* C5: QR split/join round trip.  Joining the frame strings the split step
\* produced for a non-empty body and a chunk size >= 1, as produced, returns
\* the body.
C5_SplitJoinRoundTrip ==
    (qr_pc = "done" /\ data_list = frames)
        => qr_result = [kind |-> "ok", val |-> qr_body]

\* two scanned strings are labelled frames with the same index and
\* different chunks
SameIndexDifferentChunk(x, y) ==
    /\ parse_part(x).ok
    /\ parse_part(y).ok
    /\ parse_part(x).part_num = parse_part(y).part_num
    /\ parse_part(x).b64data # parse_part(y).b64data

\* C6: QR conflicting duplicates.  A list holding two labelled frames with
\* the same index and different chunk content is never reassembled.
C6_ConflictingDuplicates ==
    (/\ qr_pc = "done"
     /\ \E a, b \in 1..Len(data_list) : SameIndexDifferentChunk(data_list[a], data_list[b]))
        => qr_result.kind # "ok"

\* C7: QR total agreement.  A list of two or more strings is reassembled
\* only if all its frames declare the same total and every index in
\* 1..total appears among them.
C7_TotalAgreement ==
    (qr_pc = "done" /\ Len(data_list) >= 2 /\ qr_result.kind = "ok") =>
        /\ \A k \in 1..Len(data_list) :
              /\ parse_part(data_list[k]).ok
              /\ parse_part(data_list[k]).total = parse_part(data_list[1]).total
        /\ \A i \in 1..parse_part(data_list[1]).total :
              \E k \in 1..Len(data_list) : parse_part(data_list[k]).part_num = i

\* C8: the QR join depends only on the set of frames.  For a complete
\* labelled set of two or more frames, every list made of exactly these
\* frames, in any order and with any repetition, is reassembled to the body.
C8_JoinDependsOnSet ==
    (qr_pc = "done" /\ Len(frames) >= 2 /\ Range(data_list) = Range(frames))
        => qr_result = [kind |-> "ok", val |-> qr_body]

\* C8 witness: three frames scanned out of order with one of them repeated
C8_Witness ==
    /\ qr_pc = "done"
    /\ Len(frames) = 3
    /\ data_list = << frames[3], frames[1], frames[3], frames[2] >>
    /\ qr_result = [kind |-> "ok", val |-> qr_body]

-----------------------------------------------------------------------------
(* Claims about the audio channel, checked under SpecAudio *)

\* C9: audio alphabet agreement.  Once the encoder script in use has
\* emitted its tones, it has the decoder's alphabet, and every character it
\* emitted a tone for has a slot in the decoder's table at the frequency of
\* that tone.
C9_AlphabetAgreement ==
    (au_script \in EncoderScripts /\ au_pc \notin { "idle", "modulate" }) =>
        /\ ENCODER_BASE64_CHARS(au_script) = BASE64_CHARS
        /\ \A i \in 1..Len(au_tones) :
              LET slot == IndexOf(au_tones[i].char, BASE64_CHARS)
              IN  /\ slot # 0
                  /\ au_tones[i].freq = FREQ_START + (slot - 1) * FREQ_STEP

\* C10: audio round trip under zero noise.  For a body made only of
\* characters of the encoder's alphabet, the decoder run on the encoder's
\* waveform ends with exactly the characters of the body, in order.
C10_AudioRoundTrip ==
    (/\ au_pc \in { "done", "no_chars" }
     /\ \A i \in 1..Len(au_body) : IndexOf(au_body[i], ENCODER_BASE64_CHARS(au_script)) # 0)
        => au_pc = "done" /\ base64_chars = au_body

-----------------------------------------------------------------------------
(* Claims about the envelope's error paths, checked under Spec *)

\* the run has stopped at a check without decoding, verifying or writing
RejectedWith(why) ==
    /\ pc = "exit"
    /\ error = why
    /\ signature_bytes = << >>
    /\ file_bytes = << >>
    /\ ~verified
    /\ output = NoOutput

\* C11: envelope rejection.  In every decoder script a line that does not
\* start with 'ac' is rejected at the prefix check, and a line that starts
\* with 'ac' and has no 'acsig1' at or after offset 2 is rejected at the
\* marker search; both stop before anything is decoded, verified or written.
C11_EnvelopeRejection ==
    script \in Scripts =>
        /\ (pc \notin { "encode", "deliver", "prefix" } /\ ~StartsWith(line, AC))
              => RejectedWith("prefix")
        /\ (/\ pc \notin { "encode", "deliver", "prefix", "marker" }
            /\ StartsWith(line, AC)
            /\ Find(line, MARKER, 2) = -1)
              => RejectedWith("marker")

\* text is base64 of RFC 4648: a multiple of four characters of the
\* standard alphabet, the last one or two of which may be '=' padding
IsValidBase64(text) ==
    LET n == Len(text)
        pad == Cardinality({ i \in 1..n : \A j \in i..n : text[j] = "=" })
    IN  /\ n % 4 = 0
        /\ pad <= 2
        /\ \A i \in 1..(n - pad) : IndexOf(text[i], B64) # 0

\* the script in use has run its base64 decoding step
Base64Attempted ==
    IF script = "python"
    THEN \/ pc \in { "sig", "pywrite", "ask", "done" }
         \/ pc = "exit" /\ error \in { "base64", "signature", "pubkey" }
    ELSE \/ pc \in { "verify", "effect", "done" }
         \/ pc = "exit" /\ error \in { "base64", "verify" }

\* C12: body validation.  In every decoder script, when the extracted body
\* is not valid base64 the run ends in the body-decode error and nothing is
\* written or applied.
C12_BodyValidation ==
    (script \in Scripts /\ Base64Attempted /\ ~IsValidBase64(base64_part)) =>
        /\ pc = "exit"
        /\ error = "base64"
        /\ output = NoOutput

\* C13: ac.txt hand-off.  When examples/python/decode.py reads the ac.txt
\* that examples/anyfile/encode.py saved, the stripped text passes the
\* prefix check and is split into the encoder's body and signature.
C13_AcTxtHandOff ==
    (/\ script = "python"
     /\ line = Strip(ac_txt(single_code))
     /\ pc \notin { "encode", "deliver", "prefix", "marker" })
        => /\ error \notin { "prefix", "marker" }
           /\ base64_part = b64encode(payload)
           /\ signature_str = encode_signature_bech32(sign(signer, payload))

-----------------------------------------------------------------------------
(* Claims about key and signature strings, checked under SpecKeys *)

\* C14: public-key decoding succeeds on valid input.  In every decoder
\* script, decode_bech32_public_key called on the string encoded with the
\* tag 'acpub' from exactly 64 bytes returns these 64 bytes.
C14_PublicKeyDecodes ==
    (/\ key_pc = "done"
     /\ key_decoder.function = "decode_bech32_public_key"
     /\ key_tag = ACPUB
     /\ Len(key_payload) = 64
     /\ key_form = "plain")
        => key_result = [ok |-> TRUE, val |-> key_payload]

\* the tag and the payload length each decoder function expects
ExpectedTag(function) ==
    CASE function = "decode_bech32_private_key" -> << "a", "c", "s", "e", "c" >>
      [] function = "decode_bech32_public_key"  -> << "a", "c", "p", "u", "b" >>
      [] OTHER                                  -> << "a", "c", "s", "i", "g" >>
ExpectedLength(function) ==
    IF function = "decode_bech32_private_key" THEN 32 ELSE 64

\* C15: bech32 strictness.  A key or signature decoder returns only when
\* the string is an intact encoding (as written or all in upper case, which
\* bech32 reads as the same string) with the expected tag of a payload of
\* exactly the expected length, and then it returns that payload; every
\* other string makes it fail.
C15_Bech32Strictness ==
    (key_pc = "done" /\ key_result.ok) =>
        /\ key_form \in { "plain", "upper" }
        /\ key_tag = ExpectedTag(key_decoder.function)
        /\ Len(key_payload) = ExpectedLength(key_decoder.function)
        /\ key_result.val = key_payload

\* C15 witness: a public key decoder has refused a well-formed 'acpub'
\* string of 65 bytes
C15_Witness ==
    /\ key_pc = "done"
    /\ key_decoder = [script |-> "anyfile/decode", function |-> "decode_bech32_public_key"]
    /\ key_tag = ACPUB
    /\ Len(key_payload) = 65
    /\ key_form = "plain"
    /\ ~key_result.ok

-----------------------------------------------------------------------------
(* Claims about QR labels and the split step, checked under SpecQR *)

\* str is a non-empty string of decimal digits naming a positive integer
IsPositiveDecimal(str) ==
    /\ Len(str) > 0
    /\ \A i \in 1..Len(str) : str[i] \in { "0", "1", "2", "3", "4", "5", "6", "7", "8", "9" }
    /\ \E i \in 1..Len(str) : str[i] # "0"

\* str has the form "{i}P{total}QR: {chunk}" with i and total written as
\* positive integers
HasLabelForm(str) ==
    \E p \in 1..Len(str), q \in 1..Len(str) :
        /\ p < q
        /\ str[p] = "P"
        /\ q + 3 <= Len(str)
        /\ SubSeq(str, q, q + 3) = << "Q", "R", ":", " " >>
        /\ IsPositiveDecimal(SubSeq(str, 1, p - 1))
        /\ IsPositiveDecimal(SubSeq(str, p + 1, q - 1))

\* C16: QR label validation.  When two or more strings are passed, a string
\* that does not have the label form makes reconstruct_base64 end in the
\* label-format error.
C16_LabelValidation ==
    (/\ qr_pc = "done"
     /\ Len(data_list) >= 2
     /\ \E k \in 1..Len(data_list) : ~HasLabelForm(data_list[k]))
        => qr_result.kind = "format"

-----------------------------------------------------------------------------
(* Claims about the audio decoder, checked under SpecAudio *)

\* C17: audio partial failure.  Once every window has been processed the
\* decoder has completed, whatever the number of unrecoverable windows, with
\* the characters of the recovered windows and the count of the others.
C17_AudioPartialFailure ==
    (au_pc \in { "done", "no_chars" }) =>
        /\ au_pc = "done"
        /\ Len(base64_chars) + dropped = Len(segments)

\* C18: audio tolerance boundary (checked under SpecMap).  A frequency at
\* most 10 Hz from a slot's expected frequency, 10 Hz itself included, maps
\* to that slot's character; a frequency 11 Hz or more from it (and nearer
\* to it than to the tolerance band of a neighbouring slot) raises the
\* no-match error.
C18_ToleranceBoundary ==
    map_pc = "done" =>
        LET expected == (300 + map_slot * 50) * map_den
            distance == IF map_num >= expected THEN map_num - expected
                        ELSE expected - map_num
        IN  /\ distance <= 10 * map_den
                => map_result = [ok |-> TRUE, char |-> BASE64_CHARS[map_slot + 1]]
            /\ (distance >= 11 * map_den /\ distance < 40 * map_den)
                => ~map_result.ok

\* C18 witness: a frequency exactly 10 Hz above the expected frequency of a
\* slot has been mapped to the slot's character
C18_Witness ==
    /\ map_pc = "done"
    /\ map_slot = 5
    /\ map_den = 1
    /\ map_num = 300 + 5 * 50 + 10
    /\ map_result = [ok |-> TRUE, char |-> "F"]

-----------------------------------------------------------------------------
(* Claims about what is signed and verified, checked under Spec *)

\* the script in use has reached its call of vk.verify
VerifyAttempted ==
    /\ script \in { "anyfile", "diff" }
    /\ \/ pc \in { "verify", "effect", "done" }
       \/ pc = "exit" /\ error = "verify"

-----------------------------------------------------------------------------
(* Claims about the frames the split step emits, checked under SpecQR *)

\* the text before the chunk in frame i of total
FrameLabel(i, total) == DecStr(i) \o << "P" >> \o DecStr(total) \o QRSEP

\* what frame i carries after a label of the given length
ChunkOfFrame(i, labelLen) == SubSeq(frames[i], labelLen + 1, Len(frames[i]))

\* C20: QR split labelling.  For a non-empty body and a chunk size C >= 1
\* the split step emits total = ceil(len(body) / C) frames; frame i (from 1,
\* in emission order) is "{i}P{total}QR: " followed by
\* body[(i-1)*C : i*C]; every chunk has between 1 and C characters and all
\* but the last exactly C; the chunks in index order make up the body.
C20_SplitLabelling ==
    qr_pc # "split" =>
        LET len == Len(qr_body)
            total == Len(frames)
            chunk(i) == ChunkOfFrame(i, Len(FrameLabel(i, total)))
        IN  /\ total * chunk_size >= len
            /\ (total - 1) * chunk_size < len
            /\ \A i \in 1..total :
                  /\ SubSeq(frames[i], 1, Len(FrameLabel(i, total))) = FrameLabel(i, total)
                  /\ chunk(i) = SubSeq(qr_body, (i - 1) * chunk_size + 1,
                                       Min({ i * chunk_size, len }))
                  /\ Len(chunk(i)) \in 1..chunk_size
                  /\ i < total => Len(chunk(i)) = chunk_size
            /\ \A p \in 1..len :
                  chunk(((p - 1) \div chunk_size) + 1)[((p - 1) % chunk_size) + 1] = qr_body[p]

\* C20 witness: a body of three characters split with chunk size 2 gives
\* two frames, the last one carrying a single character
C20_Witness ==
    /\ qr_pc = "scan"
    /\ qr_body = << "A", "B", "A" >>
    /\ chunk_size = 2
    /\ frames = << << "1", "P", "2", "Q", "R", ":", " ", "A", "B" >>,
                   << "2", "P", "2", "Q", "R", ":", " ", "A" >> >>

-----------------------------------------------------------------------------
(* Claims about examples/ac_to_qr.py main and the decoder, checked under
   SpecQRMain *)

\* C21: QR single-frame pass-through.  When the string given to main fits
\* in one chunk, main emits exactly one frame, whose text is the string
\* with no label; and reconstruct_base64 called with exactly one string
\* that has not the label form returns that string unchanged.
C21_SingleFramePassThrough ==
    /\ (qr_pc # "main" /\ Len(qr_body) <= DEFAULT_CHUNK_SIZE) => frames = << qr_body >>
    /\ (qr_pc = "done" /\ Len(data_list) = 1 /\ ~HasLabelForm(data_list[1]))
          => qr_result = [kind |-> "ok", val |-> data_list[1]]

\* C21 witness: a string of exactly the chunk size has been emitted as one
\* unlabelled frame, scanned once and returned
C21_Witness ==
    /\ qr_pc = "done"
    /\ Len(qr_body) = DEFAULT_CHUNK_SIZE
    /\ frames = << qr_body >>
    /\ data_list = << qr_body >>
    /\ qr_result = [kind |-> "ok", val |-> qr_body]

-----------------------------------------------------------------------------
(* Claims about the audio encoders and the windowing, checked under
   SpecAudio *)

\* the characters of str that are in the alphabet, in order
InAlphabet(str, alphabet) ==
    LET Known(ch) == \E k \in 1..Len(alphabet) : alphabet[k] = ch
    IN  SelectSeq(str, Known)

\* C22: audio encoding.  For every input string the encoder completes and
\* has emitted one tone for each character that is in its alphabet, in
\* input order, at FREQ_START + index(char) * FREQ_STEP, each of
\* int(SAMPLE_RATE * BIT_DURATION) samples; characters outside the alphabet
\* are skipped and never make the encoding fail.
C22_AudioEncoding ==
    au_pc \notin { "idle", "modulate" } =>
        LET alphabet == ENCODER_BASE64_CHARS(au_script)
            kept == InAlphabet(au_body, alphabet)
        IN  /\ au_pc # "no_tones"
            /\ Len(au_tones) = Len(kept)
            /\ \A i \in 1..Len(kept) :
                  /\ au_tones[i].char = kept[i]
                  /\ \E k \in 1..Len(alphabet) :
                        /\ alphabet[k] = kept[i]
                        /\ au_tones[i].freq = FREQ_START + (k - 1) * FREQ_STEP
            /\ Len(audio_data) = Len(kept)
            /\ \A i \in 1..Len(kept) :
                  audio_data[i] = [freq |-> au_tones[i].freq,
                                   n |-> (SAMPLE_RATE * BIT_DURATION_MS) \div 1000]
            /\ SamplesIn(audio_data) = Len(kept) * ((SAMPLE_RATE * BIT_DURATION_MS) \div 1000)

-----------------------------------------------------------------------------
(* Claims about the windowing, checked under SpecWindow *)

RECURSIVE SampleAt(_, _)
\* the tone of sample j (from 0) of a waveform, 0 for a zero sample
SampleAt(runs, j) ==
    IF j < runs[1].n THEN runs[1].freq ELSE SampleAt(Tail(runs), j - runs[1].n)

\* the number of zero samples of a window
ZeroSamples(runs) ==
    SamplesIn(SelectSeq(runs, LAMBDA r : r.freq = 0))

\* C23: audio windowing.  For a waveform of n >= 1 samples and a window
\* length w = int(sample_rate * bit_duration) >= 1, split_audio_into_bits
\* returns ceil(n / w) windows of exactly w samples each; window k (from 0)
\* holds the samples k*w .. k*w+w-1 in order; only the last window is
\* padded, with exactly (w - n mod w) mod w zeros; a waveform of m tones of
\* w samples gives m windows and no padding.
C23_AudioWindowing ==
    au_pc = "detect" =>
        LET n == SamplesIn(audio_data)
            w == (samplerate * BIT_DURATION_MS) \div 1000
            total == Len(segments)
        IN  /\ total * w >= n
            /\ (total - 1) * w < n
            /\ \A k \in 1..total : SamplesIn(segments[k]) = w
            /\ \A k \in 0..(total - 1), o \in 0..(w - 1) :
                  SampleAt(segments[k + 1], o) =
                      IF k * w + o < n THEN SampleAt(audio_data, k * w + o) ELSE 0
            /\ \A k \in 1..(total - 1) : ZeroSamples(segments[k]) = 0
            /\ ZeroSamples(segments[total]) = (w - (n % w)) % w
            /\ (\A j \in 1..Len(audio_data) : audio_data[j].n = w)
                  => /\ total = Len(audio_data)
                     /\ \A k \in 1..total : segments[k] = << audio_data[k] >>

\* C23 witness: four samples read at a rate that gives windows of three
\* samples make two windows, the second padded with two zeros
C23_Witness ==
    /\ au_pc = "detect"
    /\ samplerate = 60
    /\ audio_data = << [freq |-> 300, n |-> 4] >>
    /\ segments = << << [freq |-> 300, n |-> 3] >>,
                     << [freq |-> 300, n |-> 1], [freq |-> 0, n |-> 2] >> >>

-----------------------------------------------------------------------------
(* Claims about the alphabet slots, checked under SpecMap *)

\* the slots whose expected frequency is within the tolerance of num / den
SlotsWithinTolerance(num, den) ==
    { index \in 0..63 : Abs(num - (300 + index * 50) * den) <= 10 * den }

\* C24: audio slot uniqueness.  At most one alphabet slot has its expected
\* frequency within 10 Hz of a frequency; the character returned for a
\* frequency is the character of that one slot, and a frequency within
\* tolerance of no slot is reported as unrecoverable.
C24_SlotUniqueness ==
    map_pc = "done" =>
        LET slots == SlotsWithinTolerance(map_num, map_den)
        IN  /\ Cardinality(slots) <= 1
            /\ slots = {} => ~map_result.ok
            /\ \A index \in slots :
                  map_result = [ok |-> TRUE, char |-> BASE64_CHARS[index + 1]]

\* C24 witness: 325 Hz, halfway between the slots of 'A' and 'B', is within
\* tolerance of neither and is reported as unrecoverable
C24_Witness ==
    /\ map_pc = "done"
    /\ map_den = 1
    /\ map_num = 325
    /\ SlotsWithinTolerance(map_num, map_den) = {}
    /\ ~map_result.ok

-----------------------------------------------------------------------------
(* Claims about the outcomes of reconstruct_base64, checked under SpecQR *)

\* C25: reconstruct_base64 is total.  For every non-empty list of strings
\* it returns a string or ends in the label-format or the missing-parts
\* failure; no list makes it raise an exception it does not handle.
C25_ReconstructTotal ==
    (qr_pc = "done" /\ Len(data_list) >= 1)
        => qr_result.kind \in { "ok", "format", "missing" }

-----------------------------------------------------------------------------
(* Claims about what the decoders write, checked under Spec *)

\* C26: examples/python/decode.py writes decoded_file only with verified
\* bytes.  Whenever decoded_file is written, the signature of the bytes
\* written has been verified successfully.
C26_PyWriteAfterVerify ==
    (script = "python" /\ output.written)
        => /\ verified
           /\ verify(pub_key, signature_bytes, output.bytes)

\* C27: examples/diff/decode_diff.py feeds git apply the verified bytes.
\* Whenever the script has run git apply, the bytes it was given are the
\* bytes whose signature was verified, valid UTF-8 or not.
C27_GitApplyVerifiedBytes ==
    (script = "diff" /\ output.written)
        => /\ verified
           /\ output.bytes = file_bytes

-----------------------------------------------------------------------------
(* Claims about the place of the marker, checked under Spec *)

\* C28: the marker cannot straddle the body/signature boundary.  When the
\* line read by anyfile/decode.py or diff/decode_diff.py is "ac" + body +
\* signature, with a body that does not contain 'acsig1' and a signature
\* string that starts with 'acsig1', the marker is found at offset
\* 2 + len(body) and the split gives exactly this body and this signature.
C28_MarkerCannotStraddle ==
    (script \in { "anyfile", "diff" } /\ MarkerSearched /\ StartsWith(line, AC)) =>
        \A n \in 2..Len(line) :
            LET body == SubSeq(line, 3, n)
                signature == SubSeq(line, n + 1, Len(line))
                holds(text) == \E i \in 0..(Len(text) - 6) :
                                  SubSeq(text, i + 1, i + 6) = << "a", "c", "s", "i", "g", "1" >>
            IN  (~holds(body) /\ Len(signature) >= 6
                    /\ SubSeq(signature, 1, 6) = << "a", "c", "s", "i", "g", "1" >>)
                  => /\ sig_index = 2 + Len(body)
                     /\ base64_part = body
                     /\ signature_str = signature

\* C28 witness: anyfile/decode.py has split a line whose body ends with
\* 'acsig', the marker less its last character, at the start of the
\* signature string
C28_Witness ==
    /\ script = "anyfile"
    /\ MarkerSearched
    /\ StartsWith(line, AC)
    /\ Len(base64_part) >= 5
    /\ SubSeq(base64_part, Len(base64_part) - 4, Len(base64_part)) = << "a", "c", "s", "i", "g" >>
    /\ sig_index = 2 + Len(base64_part)
    /\ line = AC \o base64_part \o signature_str
    /\ StartsWith(signature_str, MARKER)

-----------------------------------------------------------------------------
(* Claims about the frames of examples/ac_to_qr.py main, checked under
   SpecQRMain *)

\* C29: main emits labelled frames only when there are at least two.  A
\* string of more than 500 characters is split into two or more labelled
\* frames, every shorter one is emitted as one unlabelled frame; so when
\* every emitted frame is scanned the single-string shortcut of
\* reconstruct_base64 gets no labelled frame and the result is the string
\* main encoded.
C29_LabelsOnlyFromTwoFrames ==
    /\ qr_pc # "main" =>
          /\ Len(qr_body) > 500 =>
                /\ Len(frames) >= 2
                /\ \A i \in 1..Len(frames) :
                      LET label == FrameLabel(i, Len(frames))
                      IN  SubSeq(frames[i], 1, Len(label)) = label
          /\ Len(qr_body) <= 500 => Len(frames) = 1
          /\ Len(frames) = 1 => ~HasLabelForm(frames[1])
    /\ (qr_pc = "done" /\ Len(data_list) = Len(frames) /\ Range(data_list) = Range(frames))
          => qr_result = [kind |-> "ok", val |-> qr_body]

\* C29 witness: a string of 1001 characters has been emitted as three
\* labelled frames, all scanned, and reassembled
C29_Witness ==
    /\ qr_pc = "done"
    /\ Len(qr_body) = 1001
    /\ Len(frames) = 3
    /\ data_list = << frames[2], frames[3], frames[1] >>
    /\ qr_result = [kind |-> "ok", val |-> qr_body]

=============================================================================
